---- MODULE Spec2Model ----
(***************************************************************************)
(* Verification model of harmonica's forward-modelling drivers:            *)
(*   - _gravity_coarser (src/harmonica/_forward/prism_layer.py): the near  *)
(*     window / coarse block scheme applied to one observation point;      *)
(*   - the validating entry points point_mass_gravity                      *)
(*     (src/harmonica/forward/point_mass.py), prism_layer and the layer's  *)
(*     gravity_coarser method;                                             *)
(*   - the layer's gravity and update_top_bottom methods, the parallel     *)
(*     loop of the jitted gravity_coarser;                                 *)
(*   - the Legendre tables and their derivative                            *)
(*     (src/harmonica/_spherical_harmonics/legendre.py);                   *)
(*   - the Cartesian point-mass kernels kernel_potential_cartesian and     *)
(*     kernel_g_z, in exact arithmetic.                                    *)
(*                                                                         *)
(* Numbers.  Coordinates and distances are integers (metres).  A prism     *)
(* boundary is centre +- size/2, so every horizontal boundary is kept      *)
(* doubled (west2 = 2*west) to stay integral.  A floating value that may   *)
(* be a mean or a NaN is the record [nan, num, den] standing for num/den.  *)
(* forward_func is an uninterpreted kernel: the float accumulator          *)
(* `result` is kept as the ordered sequence of the kernel terms added to   *)
(* it.                                                                     *)
(***************************************************************************)
EXTENDS Integers, Sequences, FiniteSets, TLC

\* ------------------------------------------------------------------ bounds
MaxEast == 4        \* largest number of prisms along easting
MaxNorth == 3       \* largest number of prisms along northing
MaxFactor == 3      \* largest coarsening factor
MaxFine == 6        \* largest fine_distance

\* Spacing between consecutive prism centres of the grids of the kernel model.
GridStep == 2

MaxLen == 2         \* largest extent of one axis of an observation-point array
MaxSources == 2     \* largest number of point masses
MaxDegree == 3      \* largest max_degree of a Legendre table
MaxDerivs == 2      \* largest number of successive derivatives of a table
MaxOffset == 1      \* largest coordinate of a point handed to a Cartesian kernel

VARIABLES
    \* ---- one invocation of _gravity_coarser
    easting, northing,          \* observation point (upward does not steer control flow)
    prisms_easting,             \* [0..nE-1 -> Int], centres
    prisms_northing,            \* [0..nN-1 -> Int], centres
    prisms_bottom,              \* [j][i] -> value
    prisms_top,                 \* [j][i] -> value
    prisms_densities,           \* [j][i] -> value, possibly NaN
    fine_distance, factor,
    i_min, i_max, j_min, j_max, \* the near window, once computed
    result,                     \* sequence of kernel terms accumulated so far
    pc,                         \* position inside _gravity_coarser
    \* ---- one call of an entry point
    entry,                      \* the entry point called, "none" before the call
    epc,                        \* position inside the entry point
    args,                       \* the call's arguments
    layer,                      \* the prism layer dataset (self._obj / prisms)
    cast,                       \* np.broadcast(*coordinates[:3]): shape and size
    flat,                       \* the three raveled coordinate arrays
    allocated,                  \* the output array exists
    out,                        \* output array: per slot, the terms added to it
    factors,                    \* multipliers applied to the whole output array
    raised,                     \* the error raised, "none" if none
    kernel_evals,               \* number of kernel evaluations so far
    outer_iters,                \* outer iterations of the driver so far
    returned,                   \* the value returned, once returned
    history,                    \* the finished calls of a sequence of calls
    prism_call,                 \* the arguments handed to prism_gravity
    \* ---- one use of the Legendre functions
    leg_fn,                     \* the function called
    leg_x, leg_max_degree,      \* its arguments (x as a rational)
    leg_pc, leg_n,              \* position: phase and next degree n of the loop
    leg_p,                      \* the table p
    leg_p_deriv,                \* the table p_deriv of assoc_legendre_deriv
    leg_applied,                \* number of derivatives taken so far
    leg_reads, leg_writes,      \* indices of p read, of p_deriv written, by the
                                \* current call of assoc_legendre_deriv
    \* ---- the parallel loop of the jitted gravity_coarser
    par_args,                   \* its arguments
    par_pc,                     \* per iteration k: its position
    par_loaded,                 \* per iteration k: the value of out[k] it loaded
    par_value,                  \* per iteration k: the value _gravity_coarser returned
    par_out,                    \* the shared output array
    par_writes,                 \* per slot: the iterations that have stored into it
    \* ---- the Cartesian kernels applied to a pair of points
    ker_point,                  \* <<easting, northing, down>> of the first point
    ker_point_p,                \* <<easting_p, northing_p, down_p>> of the second
    ker_value                   \* per kernel and order of the points: what it returned

kvars == <<easting, northing, prisms_easting, prisms_northing, prisms_bottom,
           prisms_top, prisms_densities, fine_distance, factor,
           i_min, i_max, j_min, j_max, result, pc>>

evars == <<entry, epc, args, layer, cast, flat, allocated, out, factors, raised,
           kernel_evals, outer_iters, returned>>

hvars == <<history, prism_call>>

lvars == <<leg_fn, leg_x, leg_max_degree, leg_pc, leg_n, leg_p, leg_p_deriv,
           leg_applied, leg_reads, leg_writes>>

pvars == <<par_args, par_pc, par_loaded, par_value, par_out, par_writes>>

cvars == <<ker_point, ker_point_p, ker_value>>

\* What the actions of one part of the model leave alone.
nonkernel == <<evars, hvars, lvars, pvars, cvars>>
nonentry == <<kvars, hvars, lvars, pvars, cvars>>

vars == <<kvars, evars, hvars, lvars, pvars, cvars>>

\* The parts of the model a specification does not use.
HistoryIdle == history = <<>> /\ prism_call = <<>>

LegendreIdle ==
    /\ leg_fn = "none" /\ leg_x = <<>> /\ leg_max_degree = 0
    /\ leg_pc = "unused" /\ leg_n = 0
    /\ leg_p = <<>> /\ leg_p_deriv = <<>> /\ leg_applied = 0
    /\ leg_reads = {} /\ leg_writes = {}

ParallelIdle ==
    /\ par_args = <<>> /\ par_pc = <<>> /\ par_loaded = <<>>
    /\ par_value = <<>> /\ par_out = <<>> /\ par_writes = <<>>

CartesianIdle == ker_point = <<>> /\ ker_point_p = <<>> /\ ker_value = {}

\* ------------------------------------------------------------ arithmetic
Max(a, b) == IF a >= b THEN a ELSE b
Min(a, b) == IF a <= b THEN a ELSE b
Abs(a) == IF a >= 0 THEN a ELSE 0 - a

\* Python's float floor division a // b (b # 0), followed by int().
FloorDiv(a, b) == IF b > 0 THEN a \div b ELSE (0 - a) \div (0 - b)

\* Array helpers: arrays are functions over 0..size-1.
Size(arr) == Cardinality(DOMAIN arr)
ArrMin(arr) == CHOOSE v \in {arr[k] : k \in DOMAIN arr} :
                   \A k \in DOMAIN arr : v <= arr[k]

\* Floating values: an exact rational or NaN.
NaN == [nan |-> TRUE, num |-> 0, den |-> 1]
Num(v) == [nan |-> FALSE, num |-> v, den |-> 1]
IsNan(x) == x.nan

\* Python slice a : a + factor clipped to an axis of length n.
SliceEnd(a, f, n) == Min(a + f, n)

RECURSIVE SumRow(_, _, _, _)
SumRow(arr, j, i0, i1) ==
    IF i0 >= i1 THEN 0 ELSE arr[j][i0].num + SumRow(arr, j, i0 + 1, i1)

RECURSIVE SumBlock(_, _, _, _, _)
SumBlock(arr, j0, j1, i0, i1) ==
    IF j0 >= j1 THEN 0 ELSE SumRow(arr, j0, i0, i1) + SumBlock(arr, j0 + 1, j1, i0, i1)

\* np.mean(arr[j : j + factor, i : i + factor]): NaN as soon as one entry is NaN.
BlockMean(arr, j, i, f) ==
    LET nN == Size(arr)
        nE == Size(arr[0])
        j1 == SliceEnd(j, f, nN)
        i1 == SliceEnd(i, f, nE)
    IN IF \E jj \in j..(j1 - 1), ii \in i..(i1 - 1) : IsNan(arr[jj][ii])
       THEN NaN
       ELSE [nan |-> FALSE,
             num |-> SumBlock(arr, j, j1, i, i1),
             den |-> (j1 - j) * (i1 - i)]

\* ------------------------------------------------- _gravity_coarser, parts
\* Size of the finer prisms (signed: negative for decreasing centres).
PrismSize(centres) == centres[1] - centres[0]

\* Lower bounding index of the finer box along one axis.
WindowMin(obs, centres, fd, f) ==
    Max(FloorDiv(obs - ArrMin(centres) - fd, PrismSize(centres) * f), 0)

\* Upper (exclusive) bounding index of the finer box along one axis.
WindowMax(obs, centres, fd, f) ==
    Min(FloorDiv(obs - ArrMin(centres) + fd, PrismSize(centres) * f) + 1,
        Size(centres))

\* The term added for fine prism (j, i).
FineTerm(pe, pn, pb, pt, pd, j, i) ==
    [kind |-> "fine", i |-> i, j |-> j,
     west2 |-> 2 * pe[i] - PrismSize(pe),
     east2 |-> 2 * pe[i] + PrismSize(pe),
     south2 |-> 2 * pn[j] - PrismSize(pn),
     north2 |-> 2 * pn[j] + PrismSize(pn),
     bottom |-> pb[j][i], top |-> pt[j][i], density |-> pd[j][i]]

\* "Forward model the finer grid": i outer, j inner over the window.
FineTerms(pe, pn, pb, pt, pd, imin, imax, jmin, jmax) ==
    LET ni == Max(0, imax - imin)
        nj == Max(0, jmax - jmin)
    IN [k \in 1..(ni * nj) |->
           FineTerm(pe, pn, pb, pt, pd,
                    jmin + ((k - 1) % nj), imin + ((k - 1) \div nj))]

\* The coarse prism of the block with origin (j, i).
CoarseTerm(pe, pn, pb, pt, pd, f, j, i) ==
    [kind |-> "coarse", i |-> i, j |-> j,
     west2 |-> 2 * pe[i] - PrismSize(pe),
     east2 |-> 2 * pe[i] + (2 * f - 1) * PrismSize(pe),
     south2 |-> 2 * pn[j] - PrismSize(pn),
     north2 |-> 2 * pn[j] + (2 * f - 1) * PrismSize(pn),
     bottom |-> BlockMean(pb, j, i, f),
     top |-> BlockMean(pt, j, i, f),
     density |-> BlockMean(pd, j, i, f)]

\* Mutation of InNearWindow: the lower bounds compared strictly.
InNearWindowStrict(i, j, imin, imax, jmin, jmax) ==
    imin < i /\ i < imax /\ jmin < j /\ j < jmax

\* The test that makes the coarse loop `continue` on a block origin.
InNearWindow(i, j, imin, imax, jmin, jmax) ==
    imin <= i /\ i < imax /\ jmin <= j /\ j < jmax

\* Mutation of SkipDensity: the NaN test dropped.
SkipDensityNever(density) == FALSE

\* The test that makes the coarse loop `continue` on a block's density.
SkipDensity(density) == IsNan(density)

\* Number of block origins range(0, n, f) yields.
NumBlocks(n, f) == (n + f - 1) \div f

\* "Forward model the coarser grid": block origins visited i outer, j inner.
CoarseTerms(pe, pn, pb, pt, pd, f, imin, imax, jmin, jmax) ==
    LET nbi == NumBlocks(Size(pe), f)
        nbj == NumBlocks(Size(pn), f)
        all == [k \in 1..(nbi * nbj) |->
                   CoarseTerm(pe, pn, pb, pt, pd, f,
                              ((k - 1) % nbj) * f, ((k - 1) \div nbj) * f)]
        Evaluated(t) == /\ ~InNearWindow(t.i, t.j, imin, imax, jmin, jmax)
                        /\ ~SkipDensity(t.density)
    IN SelectSeq(all, Evaluated)

\* ------------------------------------------------------- kernel model inputs
Grid(first, step, n) == [k \in 0..(n - 1) |-> first + k * step]

EastingGrids ==
    {Grid(0, GridStep, n) : n \in 2..MaxEast}
        \cup {Grid(GridStep * (n - 1), 0 - GridStep, n) : n \in 2..MaxEast}
NorthingGrids == {Grid(0, GridStep, n) : n \in 2..MaxNorth}

ObsEastings == {-2, 0, 3, 6, 8}
ObsNorthings == {0, 3, 4}

BottomAt(j, i) == Num(0 - (1 + ((i + 2 * j) % 3)))
TopAt(j, i) == Num(1 + ((2 * i + j) % 2))
DensityAt(j, i) == Num(1 + ((i + j) % 2))

Cells(pe, pn) == (DOMAIN pn) \X (DOMAIN pe)

\* No entry point has been called.
NoReturn == [is |-> FALSE, shape |-> <<>>, data |-> <<>>, factors |-> <<>>]

EntryIdle ==
    /\ entry = "none" /\ epc = "idle" /\ args = <<>>
    /\ layer = <<>>
    /\ cast = [shape |-> <<>>, size |-> 0]
    /\ flat = <<>>
    /\ allocated = FALSE /\ out = <<>>
    /\ factors = <<>>
    /\ raised = "none"
    /\ kernel_evals = 0 /\ outer_iters = 0
    /\ returned = NoReturn

\* ------------------------------------------------ _gravity_coarser, actions
Init ==
    /\ easting \in ObsEastings
    /\ northing \in ObsNorthings
    /\ prisms_easting \in EastingGrids
    /\ prisms_northing \in NorthingGrids
    /\ fine_distance \in 0..MaxFine
    /\ factor \in 1..MaxFactor
    /\ prisms_bottom = [j \in DOMAIN prisms_northing |->
                           [i \in DOMAIN prisms_easting |-> BottomAt(j, i)]]
    /\ prisms_top = [j \in DOMAIN prisms_northing |->
                        [i \in DOMAIN prisms_easting |-> TopAt(j, i)]]
    /\ \E hole \in {<<-1, -1>>} \cup Cells(prisms_easting, prisms_northing) :
           prisms_densities =
               [j \in DOMAIN prisms_northing |->
                   [i \in DOMAIN prisms_easting |->
                       IF <<j, i>> = hole THEN NaN ELSE DensityAt(j, i)]]
    /\ i_min = 0 /\ i_max = 0 /\ j_min = 0 /\ j_max = 0
    /\ result = <<>>
    /\ pc = "window"
    /\ EntryIdle /\ HistoryIdle /\ LegendreIdle /\ ParallelIdle /\ CartesianIdle

\* Lines 647-666: sizes and the bounding indices of the finer box.
Window ==
    /\ pc = "window"
    /\ i_min' = WindowMin(easting, prisms_easting, fine_distance, factor)
    /\ i_max' = WindowMax(easting, prisms_easting, fine_distance, factor)
    /\ j_min' = WindowMin(northing, prisms_northing, fine_distance, factor)
    /\ j_max' = WindowMax(northing, prisms_northing, fine_distance, factor)
    /\ pc' = "fine"
    /\ UNCHANGED <<easting, northing, prisms_easting, prisms_northing,
                   prisms_bottom, prisms_top, prisms_densities,
                   fine_distance, factor, result>>
    /\ UNCHANGED nonkernel

\* Lines 668-690: the loop over the finer grid.
FineLoop ==
    /\ pc = "fine"
    /\ result' = result \o FineTerms(prisms_easting, prisms_northing,
                                     prisms_bottom, prisms_top, prisms_densities,
                                     i_min, i_max, j_min, j_max)
    /\ pc' = "coarse"
    /\ UNCHANGED <<easting, northing, prisms_easting, prisms_northing,
                   prisms_bottom, prisms_top, prisms_densities,
                   fine_distance, factor, i_min, i_max, j_min, j_max>>
    /\ UNCHANGED nonkernel

\* Lines 692-718: the loop over the coarser grid, then return.
CoarseLoop ==
    /\ pc = "coarse"
    /\ result' = result \o CoarseTerms(prisms_easting, prisms_northing,
                                       prisms_bottom, prisms_top, prisms_densities,
                                       factor, i_min, i_max, j_min, j_max)
    /\ pc' = "done"
    /\ UNCHANGED <<easting, northing, prisms_easting, prisms_northing,
                   prisms_bottom, prisms_top, prisms_densities,
                   fine_distance, factor, i_min, i_max, j_min, j_max>>
    /\ UNCHANGED nonkernel

Next == Window \/ FineLoop \/ CoarseLoop

Spec == Init /\ [][Next]_vars

\* ------------------------------------------------ properties, _gravity_coarser
\* Fine prisms that exist in the block with origin (j, i): the clipped index range.
BlockCells(j, i) ==
    (j..(SliceEnd(j, factor, Size(prisms_northing)) - 1))
        \X (i..(SliceEnd(i, factor, Size(prisms_easting)) - 1))

\* Block origins of the tiling aligned to index 0.
BlockOrigins ==
    {c \in Cells(prisms_easting, prisms_northing) :
        c[1] % factor = 0 /\ c[2] % factor = 0}

TermsOf(kind, j, i) ==
    {k \in DOMAIN result : result[k].kind = kind /\ result[k].j = j /\ result[k].i = i}

HasCoarseTerms == \E k \in DOMAIN result : result[k].kind = "coarse"

\* The result is the exact full sum: one term per fine prism, with that prism's
\* own boundaries and values, and no coarse term.
ExactFullSum ==
    /\ ~HasCoarseTerms
    /\ Len(result) = Size(prisms_easting) * Size(prisms_northing)
    /\ \A c \in Cells(prisms_easting, prisms_northing) :
           /\ Cardinality(TermsOf("fine", c[1], c[2])) = 1
           /\ \E k \in DOMAIN result :
                  result[k] = FineTerm(prisms_easting, prisms_northing, prisms_bottom,
                                       prisms_top, prisms_densities, c[1], c[2])

WindowIsWholeGrid ==
    /\ i_min = 0 /\ i_max = Size(prisms_easting)
    /\ j_min = 0 /\ j_max = Size(prisms_northing)

\* C1: every fine prism whose centre lies within fine_distance of the observation
\* point along both axes belongs to the near window and is evaluated individually
\* with its own bottom, top and density.
C1_NearPrismsInWindow ==
    pc = "done" =>
        \A c \in Cells(prisms_easting, prisms_northing) :
            (/\ Abs(prisms_easting[c[2]] - easting) <= fine_distance
             /\ Abs(prisms_northing[c[1]] - northing) <= fine_distance)
            => /\ InNearWindow(c[2], c[1], i_min, i_max, j_min, j_max)
               /\ \E k \in DOMAIN result :
                      result[k] = FineTerm(prisms_easting, prisms_northing,
                                           prisms_bottom, prisms_top,
                                           prisms_densities, c[1], c[2])

\* C2: a block is evaluated as one coarse prism if and only if its clipped index
\* range does not intersect the near window and its mean density is not NaN.
C2_CoarseIffDisjoint ==
    pc = "done" =>
        \A b \in BlockOrigins :
            (TermsOf("coarse", b[1], b[2]) # {})
            <=> /\ \A c \in BlockCells(b[1], b[2]) :
                       ~InNearWindow(c[2], c[1], i_min, i_max, j_min, j_max)
                /\ ~IsNan(BlockMean(prisms_densities, b[1], b[2], factor))

\* fine_distance reaches the farthest prism centre along each axis.
CoversGridExtent ==
    /\ \A i \in DOMAIN prisms_easting :
           Abs(prisms_easting[i] - easting) <= fine_distance
    /\ \A j \in DOMAIN prisms_northing :
           Abs(prisms_northing[j] - northing) <= fine_distance

\* C3: when fine_distance covers the entire grid extent, every fine prism is
\* evaluated individually and no coarse block is, for any factor: the result is
\* the full exact sum.
C3_CoveringDistanceIsExact ==
    (pc = "done" /\ CoversGridExtent) => ExactFullSum

\* C4: whenever the computed near window is the whole grid, no coarse-block kernel
\* call is made and the result is exactly one kernel call per fine prism.
C4_WholeWindowIsExact ==
    (pc = "done" /\ WindowIsWholeGrid) => ExactFullSum

\* C4 witness: a finished run whose window is the whole grid although the blocks
\* are coarser than the prisms.
C4_Witness ==
    /\ pc = "done" /\ WindowIsWholeGrid /\ factor >= 2
    /\ Len(result) = Size(prisms_easting) * Size(prisms_northing)

\* C5: every evaluated coarse prism spans exactly the fine prisms that exist in
\* its block (ragged trailing blocks included) and carries their arithmetic means.
C5_CoarsePrismSpansExistingPrisms ==
    pc = "done" =>
        \A k \in DOMAIN result :
            result[k].kind = "coarse" =>
                LET j0 == result[k].j
                    i0 == result[k].i
                    j1 == SliceEnd(j0, factor, Size(prisms_northing)) - 1
                    i1 == SliceEnd(i0, factor, Size(prisms_easting)) - 1
                    first == FineTerm(prisms_easting, prisms_northing, prisms_bottom,
                                      prisms_top, prisms_densities, j0, i0)
                    last == FineTerm(prisms_easting, prisms_northing, prisms_bottom,
                                     prisms_top, prisms_densities, j1, i1)
                IN /\ result[k].west2 = first.west2
                   /\ result[k].east2 = last.east2
                   /\ result[k].south2 = first.south2
                   /\ result[k].north2 = last.north2
                   /\ result[k].bottom = BlockMean(prisms_bottom, j0, i0, factor)
                   /\ result[k].top = BlockMean(prisms_top, j0, i0, factor)
                   /\ result[k].density = BlockMean(prisms_densities, j0, i0, factor)

\* C6: a coarse block holding a NaN density (so its mean density is NaN) is
\* skipped: no kernel term is added for it.
C6_NanBlockSkipped ==
    pc = "done" =>
        /\ \A b \in BlockOrigins :
               (\E c \in BlockCells(b[1], b[2]) : IsNan(prisms_densities[c[1]][c[2]]))
               => TermsOf("coarse", b[1], b[2]) = {}
        /\ \A k \in DOMAIN result :
               result[k].kind = "coarse" => ~IsNan(result[k].density)

\* C6 witness: a finished run with a NaN block outside the near window, skipped
\* while other blocks were evaluated as coarse prisms.
C6_Witness ==
    /\ pc = "done" /\ HasCoarseTerms
    /\ \E b \in BlockOrigins :
           /\ ~InNearWindow(b[2], b[1], i_min, i_max, j_min, j_max)
           /\ \E c \in BlockCells(b[1], b[2]) : IsNan(prisms_densities[c[1]][c[2]])
           /\ TermsOf("coarse", b[1], b[2]) = {}

\* =========================================================== entry points
\* ---------------------------------------------------- shapes and broadcasting
\* Extent of axis d (1..R) of shape s aligned to the right inside rank R.
Dim(s, R, d) == IF d <= R - Len(s) THEN 1 ELSE s[d - (R - Len(s))]

RECURSIVE ShapeSize(_)
ShapeSize(s) == IF s = <<>> THEN 1 ELSE Head(s) * ShapeSize(Tail(s))

BroadcastRank(s1, s2, s3) == Max(Len(s1), Max(Len(s2), Len(s3)))

\* np.broadcast accepts the three shapes.
Broadcastable(s1, s2, s3) ==
    LET R == BroadcastRank(s1, s2, s3)
    IN \A d \in 1..R :
           Cardinality({Dim(s, R, d) : s \in {s1, s2, s3}} \ {1}) <= 1

\* np.broadcast(...).shape
\* Mutation of BroadcastShape: the shape of the first array alone.
BroadcastShapeOfFirst(s1, s2, s3) == s1

BroadcastShape(s1, s2, s3) ==
    LET R == BroadcastRank(s1, s2, s3)
    IN [d \in 1..R |-> Max(Dim(s1, R, d), Max(Dim(s2, R, d), Dim(s3, R, d)))]

\* Product of the extents of axes d..R.
RECURSIVE SuffixProd(_, _, _)
SuffixProd(s, R, d) == IF d > R THEN 1 ELSE Dim(s, R, d) * SuffixProd(s, R, d + 1)

\* Index into the raveled array of shape s of the element that broadcasting to
\* shape B places at row-major position k.
RECURSIVE OwnIndex(_, _, _, _)
OwnIndex(s, B, k, d) ==
    LET R == Len(B)
    IN IF d > R THEN 0
       ELSE (IF Dim(s, R, d) = 1 THEN 0
             ELSE (k \div SuffixProd(B, R, d + 1)) % B[d]) * SuffixProd(s, R, d + 1)
            + OwnIndex(s, B, k, d + 1)

BroadcastAt(arr, B, k) == arr.data[OwnIndex(arr.shape, B, k, 1)]

\* np.atleast_1d(a).ravel(): the array's own elements, row-major.
Ravel(arr) == arr.data

\* An out-of-bounds read inside a jitted loop (no bounds check) yields whatever
\* the memory holds.
GarbageValues == {0 - 1, 0}
ReadAt(arr, k) == IF k \in DOMAIN arr THEN {arr[k]} ELSE GarbageValues

\* ------------------------------------------------------ _check_regular_grid
\* rtol of np.allclose is 1/RtolInverse; its atol (1e-8) is below one unit.
RtolInverse == 100000

\* Mutation of AllClose: an absolute tolerance of one unit instead.
AllCloseLoose(a, b) == Abs(a - b) <= 1

\* np.allclose(a, b) on integers: |a - b| <= atol + rtol * |b|.
AllClose(a, b) == Abs(a - b) <= Abs(b) \div RtolInverse

EvenlySpaced(c) ==
    \A k \in 1..(Size(c) - 1) : AllClose(c[1] - c[0], c[k] - c[k - 1])

\* Which check of _check_regular_grid raises, "ok" if none.
CheckRegularGrid(e, n) ==
    IF ~EvenlySpaced(e) THEN "easting"
    ELSE IF ~EvenlySpaced(n) THEN "northing"
    ELSE "ok"

\* --------------------------------------------------------- update_top_bottom
Less(x, y) == ~x.nan /\ ~y.nan /\ x.num * y.den < y.num * x.den

Shape2(a) == <<Size(a), Size(a[0])>>

\* The reference as a 2-D array: a scalar is multiplied by np.ones(shape).
ReferenceGrid(reference, shape) ==
    IF reference.ndim = 0
    THEN [j \in 0..(shape[1] - 1) |-> [i \in 0..(shape[2] - 1) |-> reference.value]]
    ELSE reference.value

\* Which check of update_top_bottom raises, "ok" if none.
CheckTopBottom(surface, reference, shape) ==
    IF Shape2(surface) # shape THEN "surface_shape"
    ELSE IF reference.ndim # 0 /\ Shape2(reference.value) # shape THEN "reference_shape"
    ELSE "ok"

\* Mutation of NewTop: the surface as it is, never exchanged with the reference.
NewTopIsSurface(surface, ref) == surface

NewTop(surface, ref) ==
    [j \in DOMAIN surface |-> [i \in DOMAIN surface[j] |->
        IF Less(surface[j][i], ref[j][i]) THEN ref[j][i] ELSE surface[j][i]]]

NewBottom(surface, ref) ==
    [j \in DOMAIN surface |-> [i \in DOMAIN surface[j] |->
        IF Less(surface[j][i], ref[j][i]) THEN surface[j][i] ELSE ref[j][i]]]

\* ------------------------------------------------------------ dispatch tables
CoordinateSystems == {"cartesian", "spherical"}

\* Mutation of Kernels: the acceleration fields of the two systems exchanged.
KernelsSwapped(cs) ==
    IF cs = "cartesian"
    THEN [potential |-> "kernel_potential_cartesian", g_r |-> "kernel_g_r"]
    ELSE [potential |-> "kernel_potential_spherical", g_z |-> "kernel_g_z"]

\* kernels[coordinate_system]: the fields of each system and their kernels.
Kernels(cs) ==
    IF cs = "cartesian"
    THEN [potential |-> "kernel_potential_cartesian", g_z |-> "kernel_g_z"]
    ELSE [potential |-> "kernel_potential_spherical", g_r |-> "kernel_g_r"]

\* Keys of prism_gravity.FIELDS, the fields of the prism kernels.
FIELDS == {"potential", "g_e", "g_n", "g_z", "g_ee", "g_nn", "g_zz",
           "g_en", "g_ez", "g_nz"}

\* ---------------------------------------------------------------- the drivers
\* Inner loop of jit_point_mass_*: one term per source for one computation point.
\* Mutation of PointTerms: out[l] assigned rather than accumulated, so that only
\* the last source is left in it.
PointTermsLastOnly(obs, points, masses, kernel) ==
    [m \in 1..1 |->
        [mass |-> masses[Size(masses) - 1], kernel |-> kernel, obs |-> obs,
         source |-> <<points[1][Size(masses) - 1], points[2][Size(masses) - 1],
                      points[3][Size(masses) - 1]>>]]

PointTerms(obs, points, masses, kernel) ==
    [m \in 1..Size(masses) |->
        [mass |-> masses[m - 1], kernel |-> kernel, obs |-> obs,
         source |-> <<points[1][m - 1], points[2][m - 1], points[3][m - 1]>>]]

\* _gravity_coarser as a whole, for one computation point.
GravityCoarserTerms(e, n, pe, pn, pb, pt, pd, fd, f) ==
    LET imin == WindowMin(e, pe, fd, f)
        imax == WindowMax(e, pe, fd, f)
        jmin == WindowMin(n, pn, fd, f)
        jmax == WindowMax(n, pn, fd, f)
    IN FineTerms(pe, pn, pb, pt, pd, imin, imax, jmin, jmax)
           \o CoarseTerms(pe, pn, pb, pt, pd, f, imin, imax, jmin, jmax)

\* --------------------------------------------------------- entry point inputs
ArrayOf(seq) == [k \in 0..(Len(seq) - 1) |-> seq[k + 1]]

ObsShapes ==
    {<<>>} \cup {<<n>> : n \in 1..MaxLen}
           \cup {<<2, c>> : c \in 1..MaxLen}

\* An observation-point coordinate array of the given shape, elements base, base+1, ...
ObsArray(shape, base) ==
    [shape |-> shape, data |-> [k \in 0..(ShapeSize(shape) - 1) |-> base + k]]

ObsCoordinates ==
    {<<ObsArray(s1, 0), ObsArray(s2, 3), ObsArray(s3, 7)>> :
        <<s1, s2, s3>> \in {t \in ObsShapes \X ObsShapes \X ObsShapes :
                               Broadcastable(t[1], t[2], t[3])}}

SourcePoints(M) ==
    <<[m \in 0..(M - 1) |-> 2 * m], [m \in 0..(M - 1) |-> 1 + m],
      [m \in 0..(M - 1) |-> 5 + m]>>
SourceMasses(M) == [m \in 0..(M - 1) |-> 10 + m]

PointSystems == CoordinateSystems \cup {"geodetic"}
PointFields == {"potential", "g_z", "g_r", "g_e"}
LayerFields == FIELDS \cup {"g_r"}

LayerEastings ==
    {Grid(0, GridStep, 3), Grid(2 * GridStep, 0 - GridStep, 3),
     ArrayOf(<<0, 2, 5>>), ArrayOf(<<0, 100000, 200001>>)}
LayerNorthings == {Grid(0, GridStep, 2), ArrayOf(<<0, 2, 5>>)}

SurfaceAt(j, i) == Num(((i + 2 * j) % 3) - 1)
ReferenceAt(j, i) == Num(1 - ((i + j) % 2))

\* Element (j, i) of the 2-D array of the named quantity.
ValueAt(what, j, i) ==
    CASE what = "top" -> TopAt(j, i)
      [] what = "bottom" -> BottomAt(j, i)
      [] what = "density" -> DensityAt(j, i)
      [] what = "surface" -> SurfaceAt(j, i)
      [] what = "reference" -> ReferenceAt(j, i)

\* The 2-D array of the named quantity over rows x cols (index sets).
Grid2(rows, cols, what) == [j \in rows |-> [i \in cols |-> ValueAt(what, j, i)]]

\* A layer dataset as the gravity_coarser method finds it.
Layers ==
    {[easting |-> pe, northing |-> pn, has_top_bottom |-> TRUE,
      top |-> Grid2(DOMAIN pn, DOMAIN pe, "top"),
      bottom |-> Grid2(DOMAIN pn, DOMAIN pe, "bottom"),
      density |-> Grid2(DOMAIN pn, DOMAIN pe, "density")] :
        pe \in LayerEastings, pn \in LayerNorthings}

\* Surfaces for a grid of nN x nE prisms: one of that shape, one a column short.
Surfaces(pn, pe) ==
    {Grid2(DOMAIN pn, DOMAIN pe, "surface"),
     Grid2(DOMAIN pn, 0..(Size(pe) - 2), "surface")}

References(pn, pe) ==
    {[ndim |-> 0, value |-> Num(0)],
     [ndim |-> 2, value |-> Grid2(DOMAIN pn, DOMAIN pe, "reference")],
     [ndim |-> 2, value |-> Grid2(0..(Size(pn) - 2), DOMAIN pe, "reference")]}

\* The variables of the _gravity_coarser model, unused by the entry points.
KernelIdle ==
    /\ easting = 0 /\ northing = 0
    /\ prisms_easting = <<>> /\ prisms_northing = <<>>
    /\ prisms_bottom = <<>> /\ prisms_top = <<>> /\ prisms_densities = <<>>
    /\ fine_distance = 0 /\ factor = 1
    /\ i_min = 0 /\ i_max = 0 /\ j_min = 0 /\ j_max = 0
    /\ result = <<>>
    /\ pc = "unused"

InitEntry ==
    /\ EntryIdle /\ KernelIdle /\ HistoryIdle /\ LegendreIdle /\ ParallelIdle
    /\ CartesianIdle

\* ------------------------------------------------------- point_mass_gravity
CallPointMassGravity ==
    /\ epc = "idle"
    /\ \E cs \in PointSystems, f \in PointFields, c \in ObsCoordinates,
          M \in 1..MaxSources :
           args' = [coordinate_system |-> cs, field |-> f, coordinates |-> c,
                    points |-> SourcePoints(M), masses |-> SourceMasses(M)]
    /\ entry' = "point_mass_gravity"
    /\ epc' = "check_system"
    /\ UNCHANGED <<layer, cast, flat, allocated, out, factors, raised,
                   kernel_evals, outer_iters, returned>>
    /\ UNCHANGED nonentry

\* Lines 144-147: sanity check of coordinate_system.
PmCheckSystem ==
    /\ entry = "point_mass_gravity" /\ epc = "check_system"
    /\ IF args.coordinate_system \notin CoordinateSystems
       THEN raised' = "coordinate_system" /\ epc' = "raised"
       ELSE raised' = raised /\ epc' = "check_field"
    /\ UNCHANGED <<entry, args, layer, cast, flat, allocated, out, factors,
                   kernel_evals, outer_iters, returned>>
    /\ UNCHANGED nonentry

\* Lines 148-149: sanity check of field.
PmCheckField ==
    /\ entry = "point_mass_gravity" /\ epc = "check_field"
    /\ IF args.field \notin DOMAIN Kernels(args.coordinate_system)
       THEN raised' = "field" /\ epc' = "raised"
       ELSE raised' = raised /\ epc' = "allocate"
    /\ UNCHANGED <<entry, args, layer, cast, flat, allocated, out, factors,
                   kernel_evals, outer_iters, returned>>
    /\ UNCHANGED nonentry

\* Lines 150-156 (and 322-324 of the layer method): the broadcast, the zeroed
\* output array, the raveled coordinates.
Allocate(next) ==
    /\ cast' = [shape |-> BroadcastShape(args.coordinates[1].shape,
                                         args.coordinates[2].shape,
                                         args.coordinates[3].shape),
                size |-> ShapeSize(BroadcastShape(args.coordinates[1].shape,
                                                  args.coordinates[2].shape,
                                                  args.coordinates[3].shape))]
    /\ allocated' = TRUE
    /\ out' = [k \in 0..(cast'.size - 1) |-> <<>>]
    /\ flat' = <<Ravel(args.coordinates[1]), Ravel(args.coordinates[2]),
                 Ravel(args.coordinates[3])>>
    /\ epc' = next
    /\ UNCHANGED <<entry, args, layer, factors, raised, kernel_evals,
                   outer_iters, returned>>
    /\ UNCHANGED nonentry

PmAllocate ==
    /\ entry = "point_mass_gravity" /\ epc = "allocate"
    /\ Allocate("driver")

\* Lines 190-194 / 272-283: one outer iteration of the dispatcher, its inner
\* loop over the sources included.
PmDriverStep ==
    /\ entry = "point_mass_gravity" /\ epc = "driver"
    /\ outer_iters < Size(flat[1])
    /\ \E e \in ReadAt(flat[1], outer_iters), n \in ReadAt(flat[2], outer_iters),
          d \in ReadAt(flat[3], outer_iters) :
           out' = [out EXCEPT ![outer_iters] =
                       @ \o PointTerms(<<e, n, d>>, args.points, args.masses,
                                       Kernels(args.coordinate_system)[args.field])]
    /\ kernel_evals' = kernel_evals + Size(args.masses)
    /\ outer_iters' = outer_iters + 1
    /\ UNCHANGED <<entry, epc, args, layer, cast, flat, allocated, factors,
                   raised, returned>>
    /\ UNCHANGED nonentry

\* Mutation of PointFactors: every field converted to mGal.
PointFactorsAllMilligal(field) == <<"G", "1e5">>

\* Factors applied by point_mass_gravity, lines 161-164.
PointFactors(field) ==
    <<"G">> \o (IF field \in {"g_r", "g_z"} THEN <<"1e5">> ELSE <<>>)

\* Lines 161-165: the loop has ended; scale and return the reshaped array.
PmFinish ==
    /\ entry = "point_mass_gravity" /\ epc = "driver"
    /\ outer_iters >= Size(flat[1])
    /\ factors' = PointFactors(args.field)
    /\ returned' = [is |-> TRUE, shape |-> cast.shape, data |-> out,
                    factors |-> factors']
    /\ epc' = "done"
    /\ UNCHANGED <<entry, args, layer, cast, flat, allocated, out, raised,
                   kernel_evals, outer_iters>>
    /\ UNCHANGED nonentry

\* ------------------------------------- DatasetAccessorPrismLayer.gravity_coarser
CallGravityCoarser ==
    /\ epc = "idle"
    /\ layer' \in Layers
    /\ \E f \in LayerFields, c \in ObsCoordinates, fd \in {0, 3} :
           args' = [field |-> f, coordinates |-> c, fine_distance |-> fd,
                    factor |-> 2]
    /\ entry' = "gravity_coarser"
    /\ epc' = "allocate"
    /\ UNCHANGED <<cast, flat, allocated, out, factors, raised,
                   kernel_evals, outer_iters, returned>>
    /\ UNCHANGED nonentry

\* Lines 322-324.
GcAllocate ==
    /\ entry = "gravity_coarser" /\ epc = "allocate"
    /\ Allocate("check_grid")

\* Line 325: _check_regular_grid on the layer's coordinates.
GcCheckGrid ==
    /\ entry = "gravity_coarser" /\ epc = "check_grid"
    /\ IF CheckRegularGrid(layer.easting, layer.northing) # "ok"
       THEN raised' = CheckRegularGrid(layer.easting, layer.northing)
            /\ epc' = "raised"
       ELSE raised' = raised /\ epc' = "lookup"
    /\ UNCHANGED <<entry, args, layer, cast, flat, allocated, out, factors,
                   kernel_evals, outer_iters, returned>>
    /\ UNCHANGED nonentry

\* Line 333: FIELDS[field], evaluated while the arguments of the call are built.
GcLookup ==
    /\ entry = "gravity_coarser" /\ epc = "lookup"
    /\ IF args.field \notin FIELDS
       THEN raised' = "field" /\ epc' = "raised"
       ELSE raised' = raised /\ epc' = "driver"
    /\ UNCHANGED <<entry, args, layer, cast, flat, allocated, out, factors,
                   kernel_evals, outer_iters, returned>>
    /\ UNCHANGED nonentry

\* Lines 614-627: one iteration of the loop over computation points.
GcDriverStep ==
    /\ entry = "gravity_coarser" /\ epc = "driver"
    /\ outer_iters < Size(flat[1])
    /\ \E e \in ReadAt(flat[1], outer_iters), n \in ReadAt(flat[2], outer_iters) :
           LET terms == GravityCoarserTerms(e, n, layer.easting, layer.northing,
                                            layer.bottom, layer.top, layer.density,
                                            args.fine_distance, args.factor)
           IN /\ out' = [out EXCEPT ![outer_iters] = @ \o terms]
              /\ kernel_evals' = kernel_evals + Len(terms)
    /\ outer_iters' = outer_iters + 1
    /\ UNCHANGED <<entry, epc, args, layer, cast, flat, allocated, factors,
                   raised, returned>>
    /\ UNCHANGED nonentry

\* Mutation of LayerFactors: only g_z has its sign flipped.
LayerFactorsFlipGzOnly(field) ==
    (IF field = "g_z" THEN <<"-1">> ELSE <<>>)
        \o (IF field \in {"g_e", "g_n", "g_z"} THEN <<"1e5">> ELSE <<>>)
        \o (IF field \in {"g_ee", "g_nn", "g_zz", "g_en", "g_ez", "g_nz"}
            THEN <<"1e9">> ELSE <<>>)

\* Factors applied by the layer method, lines 338-346.
LayerFactors(field) ==
    (IF field \in {"g_z", "g_ez", "g_nz"} THEN <<"-1">> ELSE <<>>)
        \o (IF field \in {"g_e", "g_n", "g_z"} THEN <<"1e5">> ELSE <<>>)
        \o (IF field \in {"g_ee", "g_nn", "g_zz", "g_en", "g_ez", "g_nz"}
            THEN <<"1e9">> ELSE <<>>)

\* Lines 338-347: the loop has ended; convert units and return the reshaped array.
GcFinish ==
    /\ entry = "gravity_coarser" /\ epc = "driver"
    /\ outer_iters >= Size(flat[1])
    /\ factors' = LayerFactors(args.field)
    /\ returned' = [is |-> TRUE, shape |-> cast.shape, data |-> out,
                    factors |-> factors']
    /\ epc' = "done"
    /\ UNCHANGED <<entry, args, layer, cast, flat, allocated, out, raised,
                   kernel_evals, outer_iters>>
    /\ UNCHANGED nonentry

\* ---------------------------------------------------------------- prism_layer
CallPrismLayer ==
    /\ epc = "idle"
    /\ \E pe \in LayerEastings, pn \in LayerNorthings :
       \E surface \in Surfaces(pn, pe), reference \in References(pn, pe) :
           args' = [coordinates |-> <<pe, pn>>, surface |-> surface,
                    reference |-> reference,
                    properties |-> [density |-> Grid2(DOMAIN pn, DOMAIN pe, "density")]]
    /\ entry' = "prism_layer"
    /\ epc' = "make_grid"
    /\ UNCHANGED <<layer, cast, flat, allocated, out, factors, raised,
                   kernel_evals, outer_iters, returned>>
    /\ UNCHANGED nonentry

\* Lines 122-133: the dataset of centres and properties, without top and bottom.
PlMakeGrid ==
    /\ entry = "prism_layer" /\ epc = "make_grid"
    /\ layer' = [easting |-> args.coordinates[1], northing |-> args.coordinates[2],
                 has_top_bottom |-> FALSE, top |-> <<>>, bottom |-> <<>>,
                 density |-> args.properties.density]
    /\ epc' = "check_grid"
    /\ UNCHANGED <<entry, args, cast, flat, allocated, out, factors, raised,
                   kernel_evals, outer_iters, returned>>
    /\ UNCHANGED nonentry

\* Line 134: _check_regular_grid on the new dataset's coordinates.
PlCheckGrid ==
    /\ entry = "prism_layer" /\ epc = "check_grid"
    /\ IF CheckRegularGrid(layer.easting, layer.northing) # "ok"
       THEN raised' = CheckRegularGrid(layer.easting, layer.northing)
            /\ epc' = "raised"
       ELSE raised' = raised /\ epc' = "update"
    /\ UNCHANGED <<entry, args, layer, cast, flat, allocated, out, factors,
                   kernel_evals, outer_iters, returned>>
    /\ UNCHANGED nonentry

\* Lines 135-140 with update_top_bottom (264-312): set top and bottom, return.
PlUpdate ==
    /\ entry = "prism_layer" /\ epc = "update"
    /\ LET shape == <<Size(layer.northing), Size(layer.easting)>>
           check == CheckTopBottom(args.surface, args.reference, shape)
           ref == ReferenceGrid(args.reference, shape)
       IN IF check # "ok"
          THEN /\ raised' = check /\ epc' = "raised"
               /\ UNCHANGED <<layer, returned>>
          ELSE /\ layer' = [layer EXCEPT !.has_top_bottom = TRUE,
                                         !.top = NewTop(args.surface, ref),
                                         !.bottom = NewBottom(args.surface, ref)]
               /\ returned' = [is |-> TRUE, shape |-> shape, data |-> <<>>,
                               factors |-> <<>>]
               /\ raised' = raised /\ epc' = "done"
    /\ UNCHANGED <<entry, args, cast, flat, allocated, out, factors,
                   kernel_evals, outer_iters>>
    /\ UNCHANGED nonentry

\* ------------------------------------------------------- update_top_bottom
\* A surface with a missing value.
SurfaceWithNan(pn, pe) ==
    [Grid2(DOMAIN pn, DOMAIN pe, "surface") EXCEPT ![0][0] = NaN]

\* update_top_bottom called on a layer that has a top and a bottom already.
CallUpdateTopBottom ==
    /\ epc = "idle"
    /\ layer' \in Layers
    /\ \E surface \in Surfaces(layer'.northing, layer'.easting)
                        \cup {SurfaceWithNan(layer'.northing, layer'.easting)},
          reference \in References(layer'.northing, layer'.easting) :
           args' = [surface |-> surface, reference |-> reference]
    /\ entry' = "update_top_bottom"
    /\ epc' = "update"
    /\ UNCHANGED <<cast, flat, allocated, out, factors, raised,
                   kernel_evals, outer_iters, returned>>
    /\ UNCHANGED nonentry

\* Lines 290-312: the shape checks, then the new top and bottom.
UpdateTopBottom ==
    /\ entry = "update_top_bottom" /\ epc = "update"
    /\ LET shape == <<Size(layer.northing), Size(layer.easting)>>
           check == CheckTopBottom(args.surface, args.reference, shape)
           ref == ReferenceGrid(args.reference, shape)
       IN IF check # "ok"
          THEN /\ raised' = check /\ epc' = "raised"
               /\ UNCHANGED layer
          ELSE /\ layer' = [layer EXCEPT !.top = NewTop(args.surface, ref),
                                         !.bottom = NewBottom(args.surface, ref)]
               /\ raised' = raised /\ epc' = "done"
    /\ UNCHANGED <<entry, args, cast, flat, allocated, out, factors,
                   kernel_evals, outer_iters, returned>>
    /\ UNCHANGED nonentry

\* ------------------------------------------ DatasetAccessorPrismLayer.gravity
\* A 2-D array raveled, row-major.
RavelGrid(a) ==
    [k \in 1..(Size(a) * Size(a[0])) |->
        a[(k - 1) \div Size(a[0])][(k - 1) % Size(a[0])]]

\* _to_prisms, lines 482-493: one row per prism, the meshgrid of the centres
\* raveled row-major; horizontal boundaries are kept doubled.
ToPrisms(l) ==
    LET nE == Size(l.easting)
        s_east == l.easting[1] - l.easting[0]
        s_north == l.northing[1] - l.northing[0]
    IN [k \in 1..(Size(l.northing) * nE) |->
           [west2 |-> 2 * l.easting[(k - 1) % nE] - s_east,
            east2 |-> 2 * l.easting[(k - 1) % nE] + s_east,
            south2 |-> 2 * l.northing[(k - 1) \div nE] - s_north,
            north2 |-> 2 * l.northing[(k - 1) \div nE] + s_north,
            bottom |-> RavelGrid(l.bottom)[k],
            top |-> RavelGrid(l.top)[k]]]

\* _get_nonans_mask, lines 453-470.
NonansMask(l) ==
    [j \in DOMAIN l.top |-> [i \in DOMAIN l.top[j] |->
        ~l.top[j][i].nan /\ ~l.bottom[j][i].nan /\ ~l.density[j][i].nan]]

\* a[mask] for 1-D a and boolean mask: the elements at which mask holds.
RECURSIVE Compress(_, _)
Compress(a, mask) ==
    IF a = <<>> THEN <<>>
    ELSE (IF Head(mask) THEN <<Head(a)>> ELSE <<>>) \o Compress(Tail(a), Tail(mask))

\* top - bottom of a row of prisms, line 590.
Thickness(row) ==
    [nan |-> row.top.nan \/ row.bottom.nan,
     num |-> row.top.num * row.bottom.den - row.bottom.num * row.top.den,
     den |-> row.top.den * row.bottom.den]

\* Mutation of NullPrism: a prism as thick as the threshold is null too.
NullPrismOrEqual(thickness, threshold) ==
    ~thickness.nan /\ thickness.num <= threshold * thickness.den

\* thickness < thickness_threshold, line 591.
NullPrism(thickness, threshold) ==
    ~thickness.nan /\ thickness.num < threshold * thickness.den

\* The mask np.logical_not(null_prisms), lines 589-594.
ThickMask(prisms, threshold) ==
    [k \in DOMAIN prisms |-> ~NullPrism(Thickness(prisms[k]), threshold)]

\* Layers with missing values: NaN in any of top, bottom and density, each at a
\* prism of its own.
LayersWithNans ==
    {[l EXCEPT !.top[0][1] = IF "top" \in holes THEN NaN ELSE @,
               !.bottom[1][0] = IF "bottom" \in holes THEN NaN ELSE @,
               !.density[1][2] = IF "density" \in holes THEN NaN ELSE @] :
        l \in Layers, holes \in SUBSET {"top", "bottom", "density"}}

\* thickness_threshold: None, or a thickness.
ThicknessThresholds ==
    {[given |-> FALSE, value |-> 0]} \cup {[given |-> TRUE, value |-> t] : t \in 3..4}

CallGravity ==
    /\ epc = "idle"
    /\ layer' \in LayersWithNans
    /\ \E t \in ThicknessThresholds : args' = [thickness_threshold |-> t]
    /\ entry' = "gravity"
    /\ epc' = "select"
    /\ UNCHANGED <<cast, flat, allocated, out, factors, raised,
                   kernel_evals, outer_iters, returned>>
    /\ UNCHANGED nonentry

\* Lines 409-433: the boundaries and densities selected and handed to
\* prism_gravity; _to_prisms reads self.spacing, which checks the grid.
Gravity ==
    /\ entry = "gravity" /\ epc = "select"
    /\ IF CheckRegularGrid(layer.easting, layer.northing) # "ok"
       THEN /\ raised' = CheckRegularGrid(layer.easting, layer.northing)
            /\ epc' = "raised"
            /\ UNCHANGED prism_call
       ELSE LET mask == RavelGrid(NonansMask(layer))
                boundaries == Compress(ToPrisms(layer), mask)
                density == Compress(RavelGrid(layer.density), mask)
                thick == ThickMask(boundaries, args.thickness_threshold.value)
            IN /\ prism_call' =
                      IF args.thickness_threshold.given
                      THEN [prisms |-> Compress(boundaries, thick),
                            density |-> Compress(density, thick)]
                      ELSE [prisms |-> boundaries, density |-> density]
               /\ raised' = raised /\ epc' = "done"
    /\ UNCHANGED <<entry, args, layer, cast, flat, allocated, out, factors,
                   kernel_evals, outer_iters, returned>>
    /\ UNCHANGED <<kvars, history, lvars, pvars, cvars>>

NextEntry ==
    \/ CallGravity \/ Gravity
    \/ CallUpdateTopBottom \/ UpdateTopBottom
    \/ CallPointMassGravity \/ PmCheckSystem \/ PmCheckField \/ PmAllocate
    \/ PmDriverStep \/ PmFinish
    \/ CallGravityCoarser \/ GcAllocate \/ GcCheckGrid \/ GcLookup
    \/ GcDriverStep \/ GcFinish
    \/ CallPrismLayer \/ PlMakeGrid \/ PlCheckGrid \/ PlUpdate

SpecEntry == InitEntry /\ [][NextEntry]_vars

\* -------------------------------------------------- properties, entry points
ValidSystem == args.coordinate_system \in {"cartesian", "spherical"}

ValidField ==
    \/ args.coordinate_system = "cartesian" /\ args.field \in {"potential", "g_z"}
    \/ args.coordinate_system = "spherical" /\ args.field \in {"potential", "g_r"}

Finished == epc \in {"raised", "done"}

C8_ValidationBeforeAllocation ==
    (/\ entry \in {"point_mass_gravity", "gravity_coarser"}
     /\ raised \in {"coordinate_system", "field", "easting", "northing"})
    => ~allocated

\* The dataset's centre coordinates exist (from the call on for the method, from
\* make_xarray_grid on during construction).
LayerBuilt ==
    \/ entry = "gravity_coarser"
    \/ entry = "prism_layer" /\ epc # "make_grid"

\* Some consecutive difference differs from the first difference.
Uneven(c) == \E k \in 1..(Size(c) - 1) : c[k] - c[k - 1] # c[1] - c[0]

\* Some consecutive difference d differs from the first by more than the
\* tolerance 1e-8 + 1e-5 * |d| of the check.
UnevenBeyondTolerance(c) ==
    \E k \in 1..(Size(c) - 1) :
        Abs((c[1] - c[0]) - (c[k] - c[k - 1])) * 100000 > Abs(c[k] - c[k - 1])

\* The grid has not been used: execution is not past the grid check, no kernel
\* evaluation, nothing returned, and no top/bottom set by the construction.
GridUnused ==
    /\ epc \notin {"lookup", "driver", "update", "done"}
    /\ kernel_evals = 0
    /\ ~returned.is
    /\ (entry = "prism_layer" => ~layer.has_top_bottom)

\* C9 as stated: centres with any unequal consecutive differences make the
\* layer method raise before any kernel evaluation and the construction raise
\* before top/bottom are set.
C9_UnevenGridNeverUsed ==
    (LayerBuilt /\ (Uneven(layer.easting) \/ Uneven(layer.northing)))
    => /\ GridUnused
       /\ (Finished => raised \in {"easting", "northing"})

\* C9 amended: centres whose consecutive differences differ from the first by
\* more than the tolerance of the check make the layer method raise the
\* non-uniform-grid error before any kernel evaluation and the construction
\* raise it before top/bottom are set.
C9_UnevenBeyondToleranceNeverUsed ==
    (LayerBuilt /\ (UnevenBeyondTolerance(layer.easting)
                    \/ UnevenBeyondTolerance(layer.northing)))
    => /\ GridUnused
       /\ (Finished => raised \in {"easting", "northing"})
       /\ (~Finished => ENABLED NextEntry)

\* C9 witness: the layer method stopped by the grid check on uneven eastings,
\* for a field it would otherwise have computed.
C9_Witness ==
    /\ entry = "gravity_coarser" /\ raised = "easting"
    /\ UnevenBeyondTolerance(layer.easting)
    /\ args.field \in FIELDS
    /\ kernel_evals = 0

\* The terms observation point k of the broadcast coordinates must receive.
ExpectedSlot(k) ==
    LET e == BroadcastAt(args.coordinates[1], cast.shape, k)
        n == BroadcastAt(args.coordinates[2], cast.shape, k)
        d == BroadcastAt(args.coordinates[3], cast.shape, k)
    IN IF entry = "point_mass_gravity"
       THEN PointTerms(<<e, n, d>>, args.points, args.masses,
                       Kernels(args.coordinate_system)[args.field])
       ELSE GravityCoarserTerms(e, n, layer.easting, layer.northing, layer.bottom,
                                layer.top, layer.density, args.fine_distance,
                                args.factor)

\* C10: the three coordinate arrays handed to the driver all have the broadcast
\* size N, the driver runs exactly N outer iterations and every output slot
\* receives the field of its own broadcast observation point.
C10_BroadcastBeforeDriver ==
    (entry \in {"point_mass_gravity", "gravity_coarser"} /\ epc = "done")
    => /\ \A a \in 1..3 : Size(flat[a]) = cast.size
       /\ outer_iters = cast.size
       /\ \A k \in 0..(cast.size - 1) : returned.data[k] = ExpectedSlot(k)

\* -------------------------------------------------------------------- C11
\* The extent of shape s on the r-th axis counted from the last one; an array
\* of lower rank counts as having extent 1 on the axes it lacks.
ExtentFromRight(s, r) == IF r <= Len(s) THEN s[Len(s) + 1 - r] ELSE 1

CoordinateShapes ==
    <<args.coordinates[1].shape, args.coordinates[2].shape,
      args.coordinates[3].shape>>

\* C11: whenever point_mass_gravity or the layer's gravity_coarser returns, the
\* returned array has the broadcast shape of the three coordinate inputs (its
\* rank is the largest of their ranks, its extent on every axis the largest of
\* their extents there) and holds one value per element of that shape.
C11_ReturnedShapeIsBroadcastShape ==
    (entry \in {"point_mass_gravity", "gravity_coarser"} /\ returned.is) =>
        /\ Len(returned.shape) =
               Max(Len(CoordinateShapes[1]),
                   Max(Len(CoordinateShapes[2]), Len(CoordinateShapes[3])))
        /\ \A r \in 1..Len(returned.shape) :
               ExtentFromRight(returned.shape, r) =
                   Max(ExtentFromRight(CoordinateShapes[1], r),
                       Max(ExtentFromRight(CoordinateShapes[2], r),
                           ExtentFromRight(CoordinateShapes[3], r)))
        /\ Size(returned.data) = ShapeSize(returned.shape)

\* A call of the layer method with coordinates of mixed rank has returned a
\* 2-D array.
C11_Witness ==
    /\ entry = "gravity_coarser" /\ returned.is
    /\ Len(CoordinateShapes[1]) # Len(CoordinateShapes[2])
    /\ Len(returned.shape) = 2 /\ returned.shape[2] > 1

\* -------------------------------------------------------------------- C13
\* How many times the factor f was multiplied into the returned array.
TimesScaledBy(f) ==
    Cardinality({k \in DOMAIN returned.factors : returned.factors[k] = f})

\* C13: what point_mass_gravity returns is the raw sum multiplied by G once,
\* whatever the field, and by 1e5 once exactly when the field is g_z or g_r,
\* and by nothing else; the potential is scaled by G only.
C13_PointMassScaling ==
    (entry = "point_mass_gravity" /\ returned.is) =>
        /\ TimesScaledBy("G") = 1
        /\ TimesScaledBy("1e5") = (IF args.field \in {"g_z", "g_r"} THEN 1 ELSE 0)
        /\ Len(returned.factors) = TimesScaledBy("G") + TimesScaledBy("1e5")
        /\ args.field = "potential" => returned.factors = <<"G">>

\* A potential has been returned, scaled by G alone.
C13_Witness ==
    /\ entry = "point_mass_gravity" /\ returned.is
    /\ args.field = "potential" /\ returned.factors = <<"G">>
    /\ \E k \in DOMAIN returned.data : returned.data[k] # <<>>

\* -------------------------------------------------------------------- C14
\* C14: what the layer's gravity_coarser returns has its sign flipped exactly
\* for g_z, g_ez and g_nz, is multiplied by 1e5 exactly for g_e, g_n and g_z
\* and by 1e9 exactly for the six tensor components, each at most once and by
\* nothing else; the potential is returned as summed, and no field is
\* converted both to mGal and to Eotvos.
C14_LayerScaling ==
    (entry = "gravity_coarser" /\ returned.is) =>
        /\ TimesScaledBy("-1") =
               (IF args.field \in {"g_z", "g_ez", "g_nz"} THEN 1 ELSE 0)
        /\ TimesScaledBy("1e5") =
               (IF args.field \in {"g_e", "g_n", "g_z"} THEN 1 ELSE 0)
        /\ TimesScaledBy("1e9") =
               (IF args.field \in {"g_ee", "g_nn", "g_zz", "g_en", "g_ez", "g_nz"}
                THEN 1 ELSE 0)
        /\ Len(returned.factors) =
               TimesScaledBy("-1") + TimesScaledBy("1e5") + TimesScaledBy("1e9")
        /\ ~(TimesScaledBy("1e5") > 0 /\ TimesScaledBy("1e9") > 0)
        /\ args.field = "potential" => returned.factors = <<>>

\* A tensor component with a downward index has been returned, flipped and in
\* Eotvos.
C14_Witness ==
    /\ entry = "gravity_coarser" /\ returned.is
    /\ args.field = "g_ez" /\ returned.factors = <<"-1", "1e9">>

\* ------------------------------------------- point_mass_gravity, called thrice
\* Observation points: three coordinate arrays of one shape.
PointCoordinates ==
    {c \in ObsCoordinates : c[1].shape = c[2].shape /\ c[2].shape = c[3].shape}

PairMasses == [0..1 -> {10, 11}]

\* The m-th source alone, as arrays of length one.
OnlySource(a, m) == [k \in 0..0 |-> a[m]]

\* First call: two sources.
CallWithBothSources ==
    /\ epc = "idle" /\ history = <<>>
    /\ \E cs \in PointSystems, f \in PointFields, c \in PointCoordinates,
          ms \in PairMasses :
           args' = [coordinate_system |-> cs, field |-> f, coordinates |-> c,
                    points |-> SourcePoints(2), masses |-> ms]
    /\ entry' = "point_mass_gravity"
    /\ epc' = "check_system"
    /\ UNCHANGED <<layer, cast, flat, allocated, out, factors, raised,
                   kernel_evals, outer_iters, returned>>
    /\ UNCHANGED nonentry

\* Second and third call, once the previous one has returned: the same
\* observation points, field and coordinate system, one of the two sources.
CallWithOneSource ==
    /\ entry = "point_mass_gravity" /\ epc = "done" /\ Len(history) < 2
    /\ history' = Append(history, [args |-> args, returned |-> returned])
    /\ LET first == IF history = <<>> THEN args ELSE history[1].args
           m == Len(history)
       IN args' = [first EXCEPT
                       !.points = <<OnlySource(first.points[1], m),
                                    OnlySource(first.points[2], m),
                                    OnlySource(first.points[3], m)>>,
                       !.masses = OnlySource(first.masses, m)]
    /\ epc' = "check_system"
    /\ cast' = [shape |-> <<>>, size |-> 0]
    /\ flat' = <<>> /\ allocated' = FALSE /\ out' = <<>> /\ factors' = <<>>
    /\ kernel_evals' = 0 /\ outer_iters' = 0
    /\ returned' = NoReturn
    /\ UNCHANGED <<entry, layer, raised, prism_call>>
    /\ UNCHANGED <<kvars, lvars, pvars, cvars>>

NextSuperposition ==
    \/ CallWithBothSources \/ CallWithOneSource
    \/ PmCheckSystem \/ PmCheckField \/ PmAllocate \/ PmDriverStep \/ PmFinish

SpecSuperposition == InitEntry /\ [][NextSuperposition]_vars

\* -------------------------------------------------------------------- C12
\* The values of an output slot are sums of terms mass * kernel(obs, source):
\* two such sums are equal when every term occurs equally often in both.
TimesIn(terms, t) == Cardinality({k \in DOMAIN terms : terms[k] = t})

SameSum(a, b) ==
    \A t \in {a[k] : k \in DOMAIN a} \cup {b[k] : k \in DOMAIN b} :
        TimesIn(a, t) = TimesIn(b, t)

ThreeCallsReturned == Len(history) = 2 /\ epc = "done" /\ returned.is

RNaN == [nan |-> TRUE, num |-> 0, den |-> 1, rad |-> 1]
Untracked == [nan |-> FALSE, num |-> 0, den |-> 0, rad |-> 0]

IsUntracked(u) == ~u.nan /\ u.den = 0
IsZero(u) == ~u.nan /\ u.den # 0 /\ u.num = 0

RECURSIVE GCD(_, _)
GCD(a, b) == IF b = 0 THEN a ELSE GCD(b, a % b)

\* <<s, r>> with n = s * s * r and r free of square factors, searching from d.
RECURSIVE SquarePart(_, _)
SquarePart(n, d) ==
    IF d * d > n THEN <<1, n>>
    ELSE IF n % (d * d) = 0
         THEN LET rest == SquarePart(n \div (d * d), d)
              IN <<d * rest[1], rest[2]>>
         ELSE SquarePart(n, d + 1)

\* (num / den) * sqrt(rad) in the form above; den > 0, rad square-free.
Surd(num, den, rad) ==
    IF num = 0 THEN [nan |-> FALSE, num |-> 0, den |-> 1, rad |-> 1]
    ELSE LET g == GCD(Abs(num), den)
         IN [nan |-> FALSE, num |-> num \div g, den |-> den \div g, rad |-> rad]

RRat(num, den) == IF den < 0 THEN Surd(0 - num, 0 - den, 1) ELSE Surd(num, den, 1)
RInt(k) == RRat(k, 1)

\* np.sqrt(a / b) for integers a >= 0, b > 0.
RSqrtRat(a, b) ==
    IF a = 0 THEN RInt(0)
    ELSE LET g == GCD(a, b)
             sp == SquarePart((a \div g) * (b \div g), 2)
         IN Surd(sp[1], b \div g, sp[2])

RNeg(u) == IF u.nan \/ IsUntracked(u) THEN u ELSE [u EXCEPT !.num = 0 - u.num]

RMul(u, v) ==
    IF u.nan \/ v.nan THEN RNaN
    ELSE IF IsUntracked(u) \/ IsUntracked(v) THEN Untracked
    ELSE LET g == GCD(u.rad, v.rad)
         IN Surd(u.num * v.num * g, u.den * v.den, (u.rad \div g) * (v.rad \div g))

RAdd(u, v) ==
    IF u.nan \/ v.nan THEN RNaN
    ELSE IF IsUntracked(u) \/ IsUntracked(v) THEN Untracked
    ELSE IF IsZero(u) THEN v
    ELSE IF IsZero(v) THEN u
    ELSE IF u.rad # v.rad THEN Untracked
    ELSE LET l == (u.den \div GCD(u.den, v.den)) * v.den
         IN Surd(u.num * (l \div u.den) + v.num * (l \div v.den), l, u.rad)

\* ------------------------------------------------- the Legendre functions
LegendreFunctions ==
    {"assoc_legendre", "assoc_legendre_schmidt", "assoc_legendre_full"}

\* np.full((size, size), value)
FullTable(size, value) == [n \in 0..(size - 1) |-> [m \in 0..(size - 1) |-> value]]

\* p[0, 0], lines 53, 161, 217.
BaseValue(fn) == IF fn = "assoc_legendre_full" THEN RSqrtRat(1, 2) ELSE RInt(1)

\* a_nm, lines 56, 164, 220.
Anm(fn, n, m) ==
    CASE fn = "assoc_legendre" -> RRat(2 * n - 1, n - m)
      [] fn = "assoc_legendre_schmidt" ->
             RMul(RInt(2 * n - 1), RSqrtRat(1, (n + m) * (n - m)))
      [] fn = "assoc_legendre_full" ->
             RSqrtRat((2 * n + 1) * (2 * n - 1), (n + m) * (n - m))

\* Mutation of Bnm: the numerator n + m in place of n + m - 1.
BnmShifted(fn, n, m) == RRat(0 - (n + m), n - m)

\* b_nm, lines 57, 165, 221-226.
Bnm(fn, n, m) ==
    CASE fn = "assoc_legendre" -> RRat(0 - (n + m - 1), n - m)
      [] fn = "assoc_legendre_schmidt" ->
             RNeg(RSqrtRat((n + m - 1) * (n - m - 1), (n + m) * (n - m)))
      [] fn = "assoc_legendre_full" ->
             RNeg(RSqrtRat((n + m - 1) * (n - m - 1) * (2 * n + 1),
                           (n + m) * (n - m) * (2 * n - 3)))

\* c_nm, lines 59, 167, 228.
Cnm(fn, n) ==
    CASE fn = "assoc_legendre" -> RInt(2 * n - 1)
      [] fn = "assoc_legendre_schmidt" -> RSqrtRat(2 * n - 1, 1)
      [] fn = "assoc_legendre_full" -> RSqrtRat(2 * n + 1, 1)

\* d_nm, lines 61, 169-172, 230.
Dnm(fn, n) ==
    CASE fn = "assoc_legendre" -> RInt(2 * n - 1)
      [] fn = "assoc_legendre_schmidt" ->
             IF n = 1 THEN RInt(1) ELSE RSqrtRat(2 * n - 1, 2 * n)
      [] fn = "assoc_legendre_full" -> RSqrtRat(2 * n + 1, 2 * n)

\* sqrt_x = np.sqrt(1 - x**2) for x = x[1] / x[2].
SqrtX(x) == RSqrtRat(x[2] * x[2] - x[1] * x[1], x[2] * x[2])

\* Mutation of InnerOrders: the inner loop starting at order 1.
InnerOrdersFromOne(n) == 1..(n - 2)

\* range(0, n - 1), the orders of the inner loop.
InnerOrders(n) == 0..(n - 2)

\* The table after iteration n of the outer loop, lines 55-62.
LegendreRow(fn, x, p, n) ==
    [p EXCEPT ![n] =
        [m \in DOMAIN p[n] |->
            IF m = n THEN RMul(RMul(Dnm(fn, n), SqrtX(x)), p[n - 1][n - 1])
            ELSE IF m = n - 1
                 THEN RMul(RMul(Cnm(fn, n), RRat(x[1], x[2])), p[n - 1][n - 1])
            ELSE IF m \in InnerOrders(n)
                 THEN RAdd(RMul(RMul(Anm(fn, n, m), RRat(x[1], x[2])), p[n - 1][m]),
                           RMul(Bnm(fn, n, m), p[n - 2][m]))
            ELSE p[n][m]]]

\* ---- assoc_legendre_deriv
\* Line 109.
DerivMaxDegree(p) == Size(p) + 1

\* What a read outside the bounds of p may find.
GarbageReals == {RNaN, Untracked}

\* p[n, k] inside the jitted function (no bounds check); g is what the memory
\* outside p holds.
ReadP(p, n, k, g) ==
    IF n \in DOMAIN p /\ k \in DOMAIN p[n] THEN p[n][k] ELSE g

\* Indices of p read, and of p_deriv written, by iteration n, lines 113-116.
DerivReads(n) ==
    {<<n, 1>>, <<n, n - 1>>}
        \cup {<<n, m - 1>> : m \in 1..(n - 1)} \cup {<<n, m + 1>> : m \in 1..(n - 1)}
DerivWrites(n) == {<<n, m>> : m \in 0..n}

\* p_deriv after iteration n of the loop, lines 113-116.
DerivRow(p, pd, n, g) ==
    [pd EXCEPT ![n] =
        [m \in DOMAIN pd[n] |->
            IF m = n THEN RMul(RInt(n), ReadP(p, n, n - 1, g))
            ELSE IF m \in 1..(n - 1)
                 THEN RMul(RRat(1, 2),
                           RAdd(RMul(RInt((n + m) * (n - m + 1)), ReadP(p, n, m - 1, g)),
                                RNeg(ReadP(p, n, m + 1, g))))
            ELSE IF m = 0 THEN RNeg(ReadP(p, n, 1, g))
            ELSE pd[n][m]]]

\* ---- inputs and actions
\* Arguments x in [-1, 1], as <<numerator, denominator>>.
LegendreArguments == {<<0 - 1, 1>>, <<0, 1>>, <<1, 2>>, <<3, 5>>, <<1, 1>>}

InitLegendre ==
    /\ leg_fn = "none" /\ leg_x = <<>> /\ leg_max_degree = 0
    /\ leg_pc = "idle" /\ leg_n = 0
    /\ leg_p = <<>> /\ leg_p_deriv = <<>> /\ leg_applied = 0
    /\ leg_reads = {} /\ leg_writes = {}
    /\ KernelIdle /\ EntryIdle /\ HistoryIdle /\ ParallelIdle /\ CartesianIdle

\* Lines 51-53 (159-161, 215-217): the table full of NaN with its base case.
LegendreCall ==
    /\ leg_pc = "idle"
    /\ leg_fn' \in LegendreFunctions
    /\ leg_x' \in LegendreArguments
    /\ leg_max_degree' \in 0..MaxDegree
    /\ leg_p' = [FullTable(leg_max_degree' + 1, RNaN) EXCEPT ![0][0] = BaseValue(leg_fn')]
    /\ leg_n' = 1
    /\ leg_pc' = "table"
    /\ UNCHANGED <<leg_p_deriv, leg_applied, leg_reads, leg_writes>>
    /\ UNCHANGED <<kvars, evars, hvars, pvars, cvars>>

\* One iteration of the loop over n.
LegendreLoop ==
    /\ leg_pc = "table" /\ leg_n <= leg_max_degree
    /\ leg_p' = LegendreRow(leg_fn, leg_x, leg_p, leg_n)
    /\ leg_n' = leg_n + 1
    /\ UNCHANGED <<leg_fn, leg_x, leg_max_degree, leg_pc, leg_p_deriv,
                   leg_applied, leg_reads, leg_writes>>
    /\ UNCHANGED <<kvars, evars, hvars, pvars, cvars>>

\* return p
LegendreReturn ==
    /\ leg_pc = "table" /\ leg_n > leg_max_degree
    /\ leg_pc' = "returned"
    /\ UNCHANGED <<leg_fn, leg_x, leg_max_degree, leg_n, leg_p, leg_p_deriv,
                   leg_applied, leg_reads, leg_writes>>
    /\ UNCHANGED <<kvars, evars, hvars, pvars, cvars>>

\* assoc_legendre_deriv(x, p), lines 109-111, on the table last returned.
DerivCall ==
    /\ leg_pc \in {"returned", "deriv_returned"} /\ leg_applied < MaxDerivs
    /\ leg_p' = (IF leg_pc = "returned" THEN leg_p ELSE leg_p_deriv)
    /\ leg_p_deriv' = [FullTable(DerivMaxDegree(leg_p') + 1, RNaN)
                           EXCEPT ![0][0] = RInt(0)]
    /\ leg_n' = 1
    /\ leg_reads' = {} /\ leg_writes' = {<<0, 0>>}
    /\ leg_pc' = "deriv"
    /\ UNCHANGED <<leg_fn, leg_x, leg_max_degree, leg_applied>>
    /\ UNCHANGED <<kvars, evars, hvars, pvars, cvars>>

\* One iteration of the loop over n, lines 112-116.
DerivLoop ==
    /\ leg_pc = "deriv" /\ leg_n <= DerivMaxDegree(leg_p)
    /\ \E g \in GarbageReals : leg_p_deriv' = DerivRow(leg_p, leg_p_deriv, leg_n, g)
    /\ leg_reads' = leg_reads \cup DerivReads(leg_n)
    /\ leg_writes' = leg_writes \cup DerivWrites(leg_n)
    /\ leg_n' = leg_n + 1
    /\ UNCHANGED <<leg_fn, leg_x, leg_max_degree, leg_pc, leg_p, leg_applied>>
    /\ UNCHANGED <<kvars, evars, hvars, pvars, cvars>>

\* return p_deriv
DerivReturn ==
    /\ leg_pc = "deriv" /\ leg_n > DerivMaxDegree(leg_p)
    /\ leg_pc' = "deriv_returned"
    /\ leg_applied' = leg_applied + 1
    /\ UNCHANGED <<leg_fn, leg_x, leg_max_degree, leg_n, leg_p, leg_p_deriv,
                   leg_reads, leg_writes>>
    /\ UNCHANGED <<kvars, evars, hvars, pvars, cvars>>

NextLegendre ==
    \/ LegendreCall \/ LegendreLoop \/ LegendreReturn
    \/ DerivCall \/ DerivLoop \/ DerivReturn

SpecLegendre == InitLegendre /\ [][NextLegendre]_vars

\* -------------------------------------------------------------------- C15
\* t is a square table of the given size whose entries above the diagonal
\* (m > n) are NaN and whose entries on and below it are numbers.
IsTriangle(t, size) ==
    /\ DOMAIN t = 0..(size - 1)
    /\ \A n \in DOMAIN t :
           /\ DOMAIN t[n] = 0..(size - 1)
           /\ \A m \in DOMAIN t[n] : t[n][m].nan <=> m > n

\* C15: the table returned by assoc_legendre, assoc_legendre_schmidt or
\* assoc_legendre_full for max_degree >= 0 and x in [-1, 1] has max_degree + 1
\* rows and columns, NaN at every entry with m > n, a number at every entry
\* with m <= n, and at [0, 0] the base case: 1, or for the full normalization
\* the positive number whose square is 1/2.
C15_TableTriangle ==
    leg_pc = "returned" =>
        /\ IsTriangle(leg_p, leg_max_degree + 1)
        /\ leg_p[0][0].den > 0 /\ leg_p[0][0].num > 0
        /\ IF leg_fn = "assoc_legendre_full"
           THEN 2 * leg_p[0][0].num * leg_p[0][0].num * leg_p[0][0].rad
                    = leg_p[0][0].den * leg_p[0][0].den
           ELSE leg_p[0][0].num = 1 /\ leg_p[0][0].den = 1 /\ leg_p[0][0].rad = 1

\* A fully normalized table of the largest degree has been returned.
C15_Witness ==
    /\ leg_pc = "returned" /\ leg_fn = "assoc_legendre_full"
    /\ leg_max_degree = MaxDegree
    /\ ~leg_p[MaxDegree][0].nan /\ leg_p[0][MaxDegree].nan

\* -------------------------------------------------------------------- C16
\* C16: the table assoc_legendre_deriv returns has the shape of the table p it
\* was given, NaN at every entry with m > n and a number at every entry with
\* m <= n.
C16_DerivativeKeepsShape ==
    leg_pc = "deriv_returned" => IsTriangle(leg_p_deriv, Size(leg_p))

\* -------------------------------------------------------------------- C17
IsOne(u) == ~u.nan /\ u.den > 0 /\ u.num = u.den /\ u.rad = 1

\* C17: in the table assoc_legendre returns for x = 1, P[n, 0] is 1 for every
\* degree n and P[n, m] is 0 for every order 1 <= m <= n.
C17_UnnormalizedAtOne ==
    (leg_pc = "returned" /\ leg_fn = "assoc_legendre" /\ leg_x = <<1, 1>>) =>
        \A n \in 0..leg_max_degree :
            /\ IsOne(leg_p[n][0])
            /\ \A m \in 1..n : IsZero(leg_p[n][m])

\* The unnormalized table of the largest degree has been returned for x = 1.
C17_Witness ==
    /\ leg_pc = "returned" /\ leg_fn = "assoc_legendre" /\ leg_x = <<1, 1>>
    /\ leg_max_degree = MaxDegree
    /\ IsOne(leg_p[MaxDegree][0]) /\ IsZero(leg_p[MaxDegree][MaxDegree])

\* -------------------------------------------------------------------- C18
\* x <= y for two numbers (neither NaN).
AtMost(x, y) == x.num * y.den <= y.num * x.den

\* The reference height given for prism (j, i): the scalar, or its element.
ReferenceOf(j, i) ==
    IF args.reference.ndim = 0 THEN args.reference.value
    ELSE args.reference.value[j][i]

TopBottomUpdated ==
    entry \in {"update_top_bottom", "prism_layer"} /\ epc = "done"

\* C18: once update_top_bottom(surface, reference) has succeeded, the layer has
\* a top and a bottom for every prism of its grid, and at every prism where
\* neither surface nor reference is NaN the top is the larger and the bottom
\* the smaller of the two, so that bottom <= top there.
C18_TopIsMaxBottomIsMin ==
    TopBottomUpdated =>
        /\ DOMAIN layer.top = DOMAIN layer.northing
        /\ DOMAIN layer.bottom = DOMAIN layer.northing
        /\ \A j \in DOMAIN layer.northing :
               /\ DOMAIN layer.top[j] = DOMAIN layer.easting
               /\ DOMAIN layer.bottom[j] = DOMAIN layer.easting
               /\ \A i \in DOMAIN layer.easting :
                      LET s == args.surface[j][i]
                          r == ReferenceOf(j, i)
                      IN (~s.nan /\ ~r.nan) =>
                             /\ layer.top[j][i] = (IF AtMost(s, r) THEN r ELSE s)
                             /\ layer.bottom[j][i] = (IF AtMost(s, r) THEN s ELSE r)
                             /\ AtMost(layer.bottom[j][i], layer.top[j][i])

\* A layer that had a top and a bottom has been updated from a surface that
\* lies below the reference at one prism and above it at another, and its
\* top has changed.
C18_Witness ==
    /\ entry = "update_top_bottom" /\ epc = "done"
    /\ \E j \in DOMAIN layer.northing, i \in DOMAIN layer.easting :
           /\ ~args.surface[j][i].nan
           /\ ~AtMost(ReferenceOf(j, i), args.surface[j][i])
           /\ layer.top[j][i] # TopAt(j, i)
    /\ \E j \in DOMAIN layer.northing, i \in DOMAIN layer.easting :
           /\ ~args.surface[j][i].nan
           /\ ~AtMost(args.surface[j][i], ReferenceOf(j, i))
    /\ \E j \in DOMAIN layer.northing, i \in DOMAIN layer.easting :
           args.surface[j][i].nan

\* ----------------------------- the parallel loop of the jitted gravity_coarser
\* Mutation of SlotOf: every iteration accumulates into the first slot.
SlotOfFirst(k) == 0

\* The slot of out that iteration k accumulates into, line 615.
SlotOf(k) == k

\* Layers that pass _check_regular_grid, which the method calls first (line 325).
RegularLayers ==
    {l \in Layers : CheckRegularGrid(l.easting, l.northing) = "ok"}

\* The iterations of prange(easting.size).
Iterations == DOMAIN par_args.coordinates[1]

\* What _gravity_coarser returns to iteration k, lines 615-627.
IterationValue(k) ==
    GravityCoarserTerms(par_args.coordinates[1][k], par_args.coordinates[2][k],
                        par_args.layer.easting, par_args.layer.northing,
                        par_args.layer.bottom, par_args.layer.top,
                        par_args.layer.density,
                        par_args.fine_distance, par_args.factor)

\* The call as the layer method makes it (lines 322-337): three raveled
\* coordinate arrays of one length and an output array of zeros.
InitParallel ==
    /\ \E N \in 1..(MaxLen + 1), l \in RegularLayers, fd \in {0, 3} :
           par_args = [coordinates |-> <<ObsArray(<<N>>, 0).data,
                                         ObsArray(<<N>>, 3).data,
                                         ObsArray(<<N>>, 7).data>>,
                       layer |-> l, fine_distance |-> fd, factor |-> 2]
    /\ par_pc = [k \in Iterations |-> "start"]
    /\ par_loaded = [k \in Iterations |-> <<>>]
    /\ par_value = [k \in Iterations |-> <<>>]
    /\ par_out = [k \in Iterations |-> <<>>]
    /\ par_writes = [k \in Iterations |-> {}]
    /\ KernelIdle /\ EntryIdle /\ HistoryIdle /\ LegendreIdle /\ CartesianIdle

\* out[k] += ... of iteration k, in three steps: the load of out[k], ...
ParLoad(k) ==
    /\ par_pc[k] = "start"
    /\ par_loaded' = [par_loaded EXCEPT ![k] = par_out[SlotOf(k)]]
    /\ par_pc' = [par_pc EXCEPT ![k] = "loaded"]
    /\ UNCHANGED <<par_args, par_value, par_out, par_writes>>
    /\ UNCHANGED <<kvars, evars, hvars, lvars, cvars>>

\* ... the call of _gravity_coarser, ...
ParCall(k) ==
    /\ par_pc[k] = "loaded"
    /\ par_value' = [par_value EXCEPT ![k] = IterationValue(k)]
    /\ par_pc' = [par_pc EXCEPT ![k] = "called"]
    /\ UNCHANGED <<par_args, par_loaded, par_out, par_writes>>
    /\ UNCHANGED <<kvars, evars, hvars, lvars, cvars>>

\* ... and the store of the sum.
ParStore(k) ==
    /\ par_pc[k] = "called"
    /\ par_out' = [par_out EXCEPT ![SlotOf(k)] = par_loaded[k] \o par_value[k]]
    /\ par_writes' = [par_writes EXCEPT ![SlotOf(k)] = @ \cup {k}]
    /\ par_pc' = [par_pc EXCEPT ![k] = "done"]
    /\ UNCHANGED <<par_args, par_loaded, par_value>>
    /\ UNCHANGED <<kvars, evars, hvars, lvars, cvars>>

\* The iterations run on the threads of prange in any interleaving.
NextParallel ==
    \/ \E k \in Iterations : ParLoad(k)
    \/ \E k \in Iterations : ParCall(k)
    \/ \E k \in Iterations : ParStore(k)

SpecParallel == InitParallel /\ [][NextParallel]_vars

\* -------------------------------------------------------------------- C19
\* The output array after the iterations k, k + 1, ... have run one after the
\* other, each as a whole, on the array o.
RECURSIVE SequentialFrom(_, _)
SequentialFrom(k, o) ==
    IF k \notin Iterations THEN o
    ELSE SequentialFrom(k + 1, [o EXCEPT ![SlotOf(k)] = @ \o IterationValue(k)])

LoopEnded == \A k \in Iterations : par_pc[k] = "done"

\* C19: in the parallel loop of gravity_coarser no slot of out is ever stored
\* into by an iteration other than its own, every iteration holds the value
\* of its own slot as no other iteration has changed it, and whatever the
\* interleaving of the iterations, the array out at the end of the loop is the
\* one the iterations leave when run one after the other.
C19_DisjointSlots ==
    /\ \A slot \in Iterations : par_writes[slot] \subseteq {slot}
    /\ \A k \in Iterations :
           par_pc[k] \in {"loaded", "called"} => par_loaded[k] = par_out[k]
    /\ LoopEnded => par_out = SequentialFrom(0, [k \in Iterations |-> <<>>])

\* The first iteration is between its load and its store while a later one
\* has already stored into its own slot.
C19_Witness ==
    /\ par_pc # <<>> /\ par_pc[0] = "called"
    /\ \E k \in Iterations :
           k > 0 /\ par_pc[k] = "done" /\ par_writes[k] = {k} /\ par_out[k] # <<>>

\* -------------------------------------------------------------------- C20
\* Prism (j, i) of the layer has no NaN in top, bottom and density and, when
\* a threshold is given, is at least as thick as the threshold.
KeptPrism(j, i) ==
    /\ ~layer.top[j][i].nan /\ ~layer.bottom[j][i].nan /\ ~layer.density[j][i].nan
    /\ args.thickness_threshold.given =>
           layer.top[j][i].num - layer.bottom[j][i].num
               >= args.thickness_threshold.value

KeptPrisms ==
    {c \in (DOMAIN layer.northing) \X (DOMAIN layer.easting) : KeptPrism(c[1], c[2])}

\* Position of the kept prism c among the kept prisms, in row-major order.
RankOf(c) ==
    Cardinality({d \in KeptPrisms : d[1] < c[1] \/ (d[1] = c[1] /\ d[2] <= c[2])})

\* C20: what the layer's gravity method hands to prism_gravity is one boundary
\* row and one density value for each prism of the layer that has no NaN in
\* top, bottom and density and, when thickness_threshold is given, has
\* top - bottom >= thickness_threshold, and for no other; the k-th row and the
\* k-th density are those of the k-th such prism in row-major (northing,
\* easting) order.
C20_ExactlyValidPrismsPassed ==
    (entry = "gravity" /\ epc = "done") =>
        /\ Len(prism_call.prisms) = Cardinality(KeptPrisms)
        /\ Len(prism_call.density) = Cardinality(KeptPrisms)
        /\ \A c \in KeptPrisms :
               LET row == prism_call.prisms[RankOf(c)]
               IN /\ row.west2 + row.east2 = 4 * layer.easting[c[2]]
                  /\ row.south2 + row.north2 = 4 * layer.northing[c[1]]
                  /\ row.top = layer.top[c[1]][c[2]]
                  /\ row.bottom = layer.bottom[c[1]][c[2]]
                  /\ prism_call.density[RankOf(c)] = layer.density[c[1]][c[2]]

\* A layer with a NaN in each of top, bottom and density has been handed over
\* with a threshold: a prism exactly as thick as the threshold was kept, a
\* thinner one discarded.
C20_Witness ==
    /\ entry = "gravity" /\ epc = "done"
    /\ args.thickness_threshold.given
    /\ layer.top[0][1].nan /\ layer.bottom[1][0].nan /\ layer.density[1][2].nan
    /\ \E k \in DOMAIN prism_call.prisms :
           prism_call.prisms[k].top.num - prism_call.prisms[k].bottom.num
               = args.thickness_threshold.value
    /\ \E j \in DOMAIN layer.northing, i \in DOMAIN layer.easting :
           /\ ~layer.top[j][i].nan /\ ~layer.bottom[j][i].nan
           /\ ~layer.density[j][i].nan /\ ~KeptPrism(j, i)

\* ------------------------------------------------- C21: each prism counted once
\* The positions of result whose term carries the mass of fine prism c: its own
\* kernel call, or the coarse prism of a block that has c among its members.
TermsCovering(c) ==
    {k \in DOMAIN result :
        \/ result[k].kind = "fine" /\ <<result[k].j, result[k].i>> = c
        \/ result[k].kind = "coarse" /\ c \in BlockCells(result[k].j, result[k].i)}

NoNanDensity ==
    \A c \in Cells(prisms_easting, prisms_northing) :
        ~IsNan(prisms_densities[c[1]][c[2]])

\* C21: on a grid without NaN values, for every observation point, fine_distance
\* and factor >= 1, every fine prism contributes to the result exactly once:
\* through its own kernel call or as a member of exactly one evaluated coarse
\* block, never through both and never through neither.
C21_EveryPrismCountedOnce ==
    (pc = "done" /\ NoNanDensity) =>
        \A c \in Cells(prisms_easting, prisms_northing) :
            Cardinality(TermsCovering(c)) = 1


\* ------------------------------------------------ C22: prisms are well ordered
\* The horizontal boundaries of a prism are in order.
WellOrdered(prism) == prism.west2 < prism.east2 /\ prism.south2 < prism.north2

\* C22: every prism the layer produces has west < east and south < north, for
\* every grid of centre coordinates the regular-grid check accepts, grids given
\* in decreasing order included.  Stated on the prisms that the gravity method
\* takes from _to_prisms and hands to prism_gravity.
C22_PrismsWellOrdered ==
    (entry = "gravity" /\ epc = "done") =>
        \A k \in DOMAIN prism_call.prisms : WellOrdered(prism_call.prisms[k])


\* ------------------------------------------- C23: derivative indices in bounds
\* Index <<n, k>> lies inside the bounds of table t.
InBounds(t, idx) == idx[1] \in DOMAIN t /\ idx[2] \in DOMAIN t[idx[1]]

\* C23: in assoc_legendre_deriv every index (n, k) at which the input table p
\* is read lies inside p's bounds and inside its triangle 0 <= k <= n, and every
\* index written lies inside the bounds of the output, for every size of the
\* input table, the 1x1 table included.
C23_DerivIndicesInBounds ==
    leg_pc \in {"deriv", "deriv_returned"} =>
        /\ \A idx \in leg_reads :
               InBounds(leg_p, idx) /\ 0 <= idx[2] /\ idx[2] <= idx[1]
        /\ \A idx \in leg_writes : InBounds(leg_p_deriv, idx)


\* ----------------------------------------------------- the Cartesian kernels
\* _distance_cartesian_sq, lines 219-228.
DistanceCartesianSq(point_a, point_b) ==
    (point_a[1] - point_b[1]) * (point_a[1] - point_b[1])
        + (point_a[2] - point_b[2]) * (point_a[2] - point_b[2])
        + (point_a[3] - point_b[3]) * (point_a[3] - point_b[3])

\* _distance_cartesian, lines 232-236: np.sqrt of the squared distance.
DistanceCartesian(point_a, point_b) ==
    RSqrtRat(DistanceCartesianSq(point_a, point_b), 1)

\* 1 / u for a number u = (num / den) * sqrt(rad) other than zero:
\* (den / (num * rad)) * sqrt(rad).
RInv(u) ==
    IF u.nan \/ IsUntracked(u) THEN u
    ELSE IF u.num < 0 THEN Surd(0 - u.den, 0 - (u.num * u.rad), u.rad)
    ELSE Surd(u.den, u.num * u.rad, u.rad)

\* u / v inside a jitted function: a zero divisor raises ZeroDivisionError.
Divide(u, v) ==
    IF IsZero(v) THEN [raised |-> TRUE, value |-> RNaN]
    ELSE [raised |-> FALSE, value |-> RMul(u, RInv(v))]

\* distance_sq ** (3 / 2), line 215.
PowerThreeHalves(distance_sq) ==
    RMul(RInt(distance_sq), RSqrtRat(distance_sq, 1))

\* kernel_potential_cartesian, lines 198-204, on <<easting, northing, down>> and
\* <<easting_p, northing_p, down_p>>.
KernelPotentialCartesian(point, point_p) ==
    Divide(RInt(1), DistanceCartesian(point, point_p))

\* Mutation of KernelGz: the vertical difference taken upward, down - down_p.
KernelGzUpward(point, point_p) ==
    LET distance_sq == DistanceCartesianSq(point, point_p)
    IN Divide(RInt(point[3] - point_p[3]), PowerThreeHalves(distance_sq))

\* kernel_g_z, lines 208-215.
KernelGz(point, point_p) ==
    LET distance_sq == DistanceCartesianSq(point, point_p)
    IN Divide(RInt(point_p[3] - point[3]), PowerThreeHalves(distance_sq))

\* ---- inputs and actions
KernelPoints ==
    (0..MaxOffset) \X (0..MaxOffset) \X ((0 - MaxOffset)..MaxOffset)

InitCartesian ==
    /\ ker_point \in KernelPoints
    /\ ker_point_p \in KernelPoints
    /\ ker_value = {}
    /\ KernelIdle /\ EntryIdle /\ HistoryIdle /\ LegendreIdle /\ ParallelIdle

\* One call of a kernel, recorded with its arguments.
KernelCall(kernel, point, point_p, outcome) ==
    [kernel |-> kernel, point |-> point, point_p |-> point_p,
     raised |-> outcome.raised, value |-> outcome.value]

Called(kernel, point, point_p) ==
    \E c \in ker_value :
        c.kernel = kernel /\ c.point = point /\ c.point_p = point_p

\* kernel_potential_cartesian called on the pair of points, in either order.
CallKernelPotential ==
    /\ ker_point # <<>>
    /\ \E a \in {ker_point, ker_point_p}, b \in {ker_point, ker_point_p} :
           /\ {a, b} = {ker_point, ker_point_p}
           /\ ~Called("potential", a, b)
           /\ ker_value' = ker_value \cup
                  {KernelCall("potential", a, b, KernelPotentialCartesian(a, b))}
    /\ UNCHANGED <<ker_point, ker_point_p>>
    /\ UNCHANGED <<kvars, evars, hvars, lvars, pvars>>

\* kernel_g_z called on the pair of points, in either order.
CallKernelGz ==
    /\ ker_point # <<>>
    /\ \E a \in {ker_point, ker_point_p}, b \in {ker_point, ker_point_p} :
           /\ {a, b} = {ker_point, ker_point_p}
           /\ ~Called("g_z", a, b)
           /\ ker_value' = ker_value \cup
                  {KernelCall("g_z", a, b, KernelGz(a, b))}
    /\ UNCHANGED <<ker_point, ker_point_p>>
    /\ UNCHANGED <<kvars, evars, hvars, lvars, pvars>>

NextCartesian == CallKernelPotential \/ CallKernelGz

SpecCartesian == InitCartesian /\ [][NextCartesian]_vars

\* ------------------------------------------- C24: sign and symmetry of kernels
\* The sign of an integer, and of a number (num / den) * sqrt(rad), den > 0.
SignOf(k) == IF k > 0 THEN 1 ELSE IF k < 0 THEN 0 - 1 ELSE 0
SignOfValue(u) == SignOf(u.num)

Finite(u) == ~u.nan /\ ~IsUntracked(u)

\* Call d is call c with observation point and source exchanged.
Exchanged(c, d) ==
    c.kernel = d.kernel /\ c.point = d.point_p /\ c.point_p = d.point

\* C24: for non-coincident points the Cartesian g_z kernel has the sign of
\* down_p - down (positive for a source below the observation point, negative
\* for one above, zero at the same depth); exchanging observation point and
\* source leaves the potential kernel 1/l unchanged and negates the g_z kernel.
C24_KernelSignAndSymmetry ==
    \A c \in ker_value :
        c.point # c.point_p =>
            /\ ~c.raised /\ Finite(c.value)
            /\ c.kernel = "potential" => SignOfValue(c.value) = 1
            /\ c.kernel = "g_z" =>
                   SignOfValue(c.value) = SignOf(c.point_p[3] - c.point[3])
            /\ \A d \in ker_value :
                   Exchanged(c, d) =>
                       /\ c.kernel = "potential" => d.value = c.value
                       /\ c.kernel = "g_z" => d.value = RNeg(c.value)

\* C24 witness: both kernels were called in both orders on a source that lies
\* below the observation point and off its vertical.
C24_Witness ==
    /\ ker_point # <<>> /\ Cardinality(ker_value) = 4
    /\ ker_point_p[3] > ker_point[3]
    /\ ker_point_p[1] # ker_point[1]
    /\ \E c \in ker_value :
           /\ c.kernel = "g_z" /\ c.point = ker_point
           /\ SignOfValue(c.value) = 1

====
